---- MODULE Spec2Model ----
(***************************************************************************)
(* The trading simulation core of apps/trading: the Portfolio ledger       *)
(* (core/portfolio.py), the KellyCriterion sizer and the RiskManager       *)
(* (core/risk.py) and the event-driven loop Backtest.run                   *)
(* (core/backtest.py).                                                     *)
(*                                                                         *)
(* Numbers.  Every Python float is a fixed-point number: the integer n     *)
(* stands for n / Scale, so 1.0 is Scale, 0.02 is 20 and 0.001 is 1.       *)
(* x * y is Mul(x, y) and x / y is Div(x, y); both round down to the       *)
(* grid, as a float operation rounds to its precision.  + and - are exact. *)
(* Counts (len(...), open_positions, bar numbers) are plain integers.      *)
(***************************************************************************)
EXTENDS Integers, Sequences, FiniteSets, TLC

VARIABLES
    backtest,        \* the Backtest's configuration: initial_capital, commission_rate
    risk_manager,    \* the RiskManager: its configuration, its sizer and its state
    portfolio,       \* the Portfolio: initial_capital, cash, positions, trades, equity_history
    data,            \* the price series: the rows of the DataFrame, in row order
    strategy_log,    \* the strategy's signal history (Strategy.record_signal)
    run_no,          \* which call of Backtest.run on this Backtest object is in progress
    i,               \* Backtest.run: rows consumed so far by the for loop
    pc,              \* Backtest.run: the step of the loop body that comes next
    signal,          \* Backtest.run: the local `signal`
    position_size,   \* Backtest.run: the local `position_size`
    wins,            \* Backtest.run: the local list `wins`
    losses,          \* Backtest.run: the local list `losses`
    results,         \* the BacktestResult returned by each finished run
    ledger_log,      \* history: cash and held symbols just before each execute_order
    state_log,       \* history: the bars of this run on which update_state was called
    call             \* the last direct call of a RiskManager / KellyCriterion method

vars == <<backtest, risk_manager, portfolio, data, strategy_log, run_no, i, pc,
          signal, position_size, wins, losses, results, ledger_log, state_log,
          call>>

runVars == <<data, strategy_log, run_no, i, pc, signal, position_size, wins,
             losses, results>>

-----------------------------------------------------------------------------
(* Fixed-point arithmetic *)

Scale == 10 * 10 * 10

\* x * y, rounded down to the grid.  The product is taken part by part so that
\* no intermediate exceeds the range of the checker's integers.
Mul(x, y) ==
    LET xh == x \div Scale
        xl == x % Scale
        yh == y \div Scale
        yl == y % Scale
    IN xh * yh * Scale + xh * yl + xl * yh + (xl * yl) \div Scale

\* long division: q and r are the quotient and the remainder so far, k the
\* decimal digits still to produce
RECURSIVE LongDiv(_, _, _, _)
LongDiv(q, r, y, k) ==
    IF k = 0 THEN q
    ELSE LongDiv(10 * q + (10 * r) \div y, (10 * r) % y, y, k - 1)

\* x / y for y > 0, rounded down to the grid
Div(x, y) == LongDiv(x \div y, x % y, y, 3)

Min(x, y) == IF x <= y THEN x ELSE y

Max(x, y) == IF x >= y THEN x ELSE y

Abs(x) == IF x < 0 THEN -x ELSE x

RECURSIVE SumSeq(_)
SumSeq(s) == IF s = <<>> THEN 0 ELSE Head(s) + SumSeq(Tail(s))

RECURSIVE SumOver(_, _)
SumOver(f, S) ==
    IF S = {} THEN 0
    ELSE LET e == CHOOSE e \in S : TRUE IN f[e] + SumOver(f, S \ {e})

Last(s) == s[Len(s)]

-----------------------------------------------------------------------------
(* core/types.py *)

\* Trade.value
TradeValue(trade) == Mul(trade.quantity, trade.price)

\* Order | None: the value None
NoOrder == [symbol |-> "", side |-> "NONE", quantity |-> 0]

-----------------------------------------------------------------------------
(* core/portfolio.py *)

\* Position.market_value
market_value(p) == Mul(p.quantity, p.current_price)

\* Position.cost_basis
cost_basis(p) == Mul(p.quantity, p.avg_cost)

\* Portfolio.__post_init__: the cash a new Portfolio starts with
post_init(initial_capital, cash) == IF cash = 0 THEN initial_capital ELSE cash

\* Portfolio(initial_capital=...): the dataclass defaults, then __post_init__
NewPortfolio(initial_capital) ==
    [initial_capital |-> initial_capital,
     cash            |-> post_init(initial_capital, 0),
     positions       |-> [s \in {} |-> 0],
     trades          |-> <<>>,
     equity_history  |-> <<>>]

\* Portfolio.total_market_value
total_market_value(pf) ==
    SumOver([s \in DOMAIN pf.positions |-> market_value(pf.positions[s])],
            DOMAIN pf.positions)

\* Portfolio.total_equity
total_equity(pf) == pf.cash + total_market_value(pf)

\* Portfolio.total_realized_pnl: the signed amounts of the trade log
total_realized_pnl(pf) ==
    SumSeq([k \in 1..Len(pf.trades) |->
               IF pf.trades[k].side = "SELL"
               THEN TradeValue(pf.trades[k]) - pf.trades[k].fees
               ELSE -(TradeValue(pf.trades[k]) + pf.trades[k].fees)])

\* Portfolio.execute_order: the fee
fee_rate == 1

\* the closing test as it would be if it kept an emptied position
IsClosed_negative_only(quantity) == quantity < 0

\* Portfolio._update_position: the test that closes a position
IsClosed(quantity) == quantity <= 0

\* Portfolio._update_position
update_position(positions, trade) ==
    LET symbol == trade.symbol IN
    IF symbol \notin DOMAIN positions
    THEN IF trade.side = "BUY"
         THEN [s \in DOMAIN positions \cup {symbol} |->
                  IF s = symbol
                  THEN [quantity      |-> trade.quantity,
                        avg_cost      |-> trade.price,
                        current_price |-> trade.price]
                  ELSE positions[s]]
         ELSE positions
    ELSE LET position   == positions[symbol]
             total_cost == cost_basis(position) + TradeValue(trade)
             total_qty  == position.quantity + trade.quantity
             updated ==
                 IF trade.side = "BUY"
                 THEN [quantity      |-> total_qty,
                       avg_cost      |-> IF total_qty > 0
                                         THEN Div(total_cost, total_qty) ELSE 0,
                       current_price |-> trade.price]
                 ELSE [quantity      |-> position.quantity - trade.quantity,
                       avg_cost      |-> position.avg_cost,
                       current_price |-> trade.price]
         IN IF IsClosed(updated.quantity)
            THEN [s \in DOMAIN positions \ {symbol} |-> positions[s]]
            ELSE [positions EXCEPT ![symbol] = updated]

\* the cash update as it would be if a SELL were credited without its fee
update_cash_sell_gross(cash, trade) ==
    IF trade.side = "BUY"
    THEN cash - (TradeValue(trade) + trade.fees)
    ELSE cash + TradeValue(trade)

\* the cash update as it would be if a BUY were debited without its fee
update_cash_buy_gross(cash, trade) ==
    IF trade.side = "BUY"
    THEN cash - TradeValue(trade)
    ELSE cash + (TradeValue(trade) - trade.fees)

\* Portfolio._update_cash
update_cash(cash, trade) ==
    IF trade.side = "BUY"
    THEN cash - (TradeValue(trade) + trade.fees)
    ELSE cash + (TradeValue(trade) - trade.fees)

\* Portfolio.execute_order: the Trade it creates
MakeTrade(order, fill_price, timestamp) ==
    [timestamp |-> timestamp,
     symbol    |-> order.symbol,
     side      |-> order.side,
     quantity  |-> order.quantity,
     price     |-> fill_price,
     fees      |-> Mul(Mul(order.quantity, fill_price), fee_rate)]

\* Portfolio.execute_order
execute_order(pf, order, fill_price, timestamp) ==
    LET trade == MakeTrade(order, fill_price, timestamp) IN
    [pf EXCEPT !.trades    = Append(pf.trades, trade),
               !.positions = update_position(pf.positions, trade),
               !.cash      = update_cash(pf.cash, trade)]

\* update_prices as it would be if it marked nothing
update_prices_unmarked(pf, prices) == pf

\* Portfolio.update_prices
update_prices(pf, prices) ==
    [pf EXCEPT !.positions =
        [s \in DOMAIN pf.positions |->
            IF s \in DOMAIN prices
            THEN [pf.positions[s] EXCEPT !.current_price = prices[s]]
            ELSE pf.positions[s]]]

\* Portfolio.record_equity
record_equity(pf, timestamp) ==
    [pf EXCEPT !.equity_history =
        Append(pf.equity_history,
               [timestamp |-> timestamp, equity |-> total_equity(pf)])]

\* history kept beside execute_order: the ledger as it was before the order
LogLedger(pf) ==
    Append(ledger_log, [cash |-> pf.cash, held |-> DOMAIN pf.positions])

-----------------------------------------------------------------------------
(* core/risk.py: KellyCriterion *)

\* KellyCriterion(...): the dataclass; no field is validated
NewKellyCriterion(fraction, max_position_pct, min_position_pct) ==
    [fraction         |-> fraction,
     max_position_pct |-> max_position_pct,
     min_position_pct |-> min_position_pct]

\* the odds b = avg_win / avg_loss
Odds(avg_win, avg_loss) == Div(avg_win, avg_loss)

\* calculate_kelly_fraction divides by the odds b: with b = 0 the division
\* (b * p - q) / b has a zero divisor
ZeroOdds(avg_win, avg_loss) == avg_loss > 0 /\ Odds(avg_win, avg_loss) = 0

\* the Kelly fraction as it would be without the division by the odds
calculate_kelly_fraction_undivided(win_rate, avg_win, avg_loss) ==
    IF avg_loss <= 0
    THEN 0
    ELSE Mul(Odds(avg_win, avg_loss), win_rate) - (Scale - win_rate)

\* KellyCriterion.calculate_kelly_fraction, where it returns a finite number
calculate_kelly_fraction(win_rate, avg_win, avg_loss) ==
    IF avg_loss <= 0
    THEN 0
    ELSE LET b == Odds(avg_win, avg_loss)
             p == win_rate
             q == Scale - p
         IN Div(Mul(b, p) - q, b)

\* np.clip(a, a_min, a_max) == minimum(a_max, maximum(a, a_min))
clip(a, a_min, a_max) == Min(a_max, Max(a, a_min))

\* the sizer as it would be without the test for a fraction <= 0
kelly_position_size_floored(sizer, win_rate, avg_win, avg_loss, capital) ==
    Mul(capital,
        clip(Mul(calculate_kelly_fraction(win_rate, avg_win, avg_loss),
                 sizer.fraction),
             sizer.min_position_pct, sizer.max_position_pct))

\* KellyCriterion.calculate_position_size, where the Kelly fraction is finite
kelly_position_size(sizer, win_rate, avg_win, avg_loss, capital) ==
    LET kelly          == calculate_kelly_fraction(win_rate, avg_win, avg_loss)
        adjusted_kelly == Mul(kelly, sizer.fraction)
        position_pct   == clip(adjusted_kelly, sizer.min_position_pct,
                               sizer.max_position_pct)
    IN IF kelly <= 0 THEN 0 ELSE Mul(capital, position_pct)

-----------------------------------------------------------------------------
(* core/risk.py: RiskManager *)

\* RiskManager(...): the dataclass with its state fields at their defaults
NewRiskManager(position_sizer, max_dd, daily_limit, max_open) ==
    [position_sizer       |-> position_sizer,
     max_drawdown_pct     |-> max_dd,
     daily_loss_limit_pct |-> daily_limit,
     max_open_positions   |-> max_open,
     peak_equity          |-> 0,
     daily_pnl            |-> 0,
     open_positions       |-> 0]

\* RiskManager.update_state
update_state(rm, current_equity, daily_pnl, open_positions) ==
    [rm EXCEPT !.peak_equity    = Max(rm.peak_equity, current_equity),
               !.daily_pnl      = daily_pnl,
               !.open_positions = open_positions]

\* RiskManager.current_drawdown
current_drawdown(rm, current_equity) ==
    IF rm.peak_equity <= 0
    THEN 0
    ELSE Div(rm.peak_equity - current_equity, rm.peak_equity)

\* the drawdown test as it would be with an exclusive boundary
DrawdownLimitHit_strict(rm, current_equity) ==
    current_drawdown(rm, current_equity) > rm.max_drawdown_pct

\* RiskManager.can_trade: the drawdown limit is reached
DrawdownLimitHit(rm, current_equity) ==
    current_drawdown(rm, current_equity) >= rm.max_drawdown_pct

\* RiskManager.can_trade: the daily loss limit is reached
DailyLossLimitHit(rm) ==
    /\ rm.peak_equity > 0
    /\ Div(-rm.daily_pnl, rm.peak_equity) >= rm.daily_loss_limit_pct

\* RiskManager.can_trade: the position limit is reached
PositionLimitHit(rm) == rm.open_positions >= rm.max_open_positions

\* the gate as it would be without the limit on open positions
can_trade_unlimited(rm, current_equity) ==
    IF DrawdownLimitHit(rm, current_equity) THEN FALSE
    ELSE IF DailyLossLimitHit(rm) THEN FALSE
    ELSE TRUE

\* RiskManager.can_trade
can_trade(rm, current_equity) ==
    IF DrawdownLimitHit(rm, current_equity) THEN FALSE
    ELSE IF DailyLossLimitHit(rm) THEN FALSE
    ELSE IF PositionLimitHit(rm) THEN FALSE
    ELSE TRUE

\* RiskManager.calculate_position_size: target_vol
target_vol == 20

\* volatility: float | None = None.  The argument is <<>> for None and <<v>>
\* for the float v.
NoVolatility == <<>>

\* the volatility multiplier as it would be without the cap at 1.0
vol_multiplier_uncapped(volatility) ==
    IF volatility # NoVolatility /\ volatility[1] > 0
    THEN Div(target_vol, volatility[1])
    ELSE Scale

\* RiskManager.calculate_position_size: the volatility multiplier
vol_multiplier(volatility) ==
    IF volatility # NoVolatility /\ volatility[1] > 0
    THEN Min(Scale, Div(target_vol, volatility[1]))
    ELSE Scale

\* RiskManager.calculate_position_size: the drawdown multiplier
drawdown_multiplier(rm, capital) ==
    Max(0, Scale - Div(current_drawdown(rm, capital), rm.max_drawdown_pct))

\* RiskManager.calculate_position_size
calculate_position_size(rm, win_rate, avg_win, avg_loss, capital, volatility) ==
    LET base_size == kelly_position_size(rm.position_sizer, win_rate, avg_win,
                                         avg_loss, capital)
    IN Mul(Mul(base_size, drawdown_multiplier(rm, capital)),
           vol_multiplier(volatility))

-----------------------------------------------------------------------------
(* core/strategy.py: Signal *)

SignalTypes == {"LONG", "SHORT", "CLOSE", "HOLD"}

\* Signal(signal_type, symbol, strength, confidence)
NewSignal(signal_type, symbol, strength, confidence) ==
    [signal_type |-> signal_type, symbol |-> symbol,
     strength |-> strength, confidence |-> confidence]

\* Signal.to_order(quantity): an Order for the signal's symbol, BUY for LONG,
\* SELL for SHORT and CLOSE, and None for HOLD
to_order(sig, quantity) ==
    IF sig.signal_type = "HOLD"
    THEN NoOrder
    ELSE [symbol   |-> sig.symbol,
          side     |-> IF sig.signal_type = "LONG" THEN "BUY" ELSE "SELL",
          quantity |-> quantity]

-----------------------------------------------------------------------------
(* core/portfolio.py: get_metrics *)

\* Portfolio.get_metrics: np.maximum.accumulate(equities), up to entry k
RECURSIVE RunningPeak(_, _)
RunningPeak(eh, k) ==
    IF k = 1 THEN eh[1].equity
    ELSE Max(RunningPeak(eh, k - 1), eh[k].equity)

\* Portfolio.get_metrics: np.max((peak - equities) / peak), up to entry k
RECURSIVE MaxDrawdown(_, _)
MaxDrawdown(eh, k) ==
    LET here == Div(RunningPeak(eh, k) - eh[k].equity, RunningPeak(eh, k))
    IN IF k = 1 THEN here ELSE Max(MaxDrawdown(eh, k - 1), here)

\* Portfolio.get_returns: np.diff(equities) / equities[:-1]
get_returns(eh) ==
    IF Len(eh) < 2 THEN <<>>
    ELSE [k \in 1..(Len(eh) - 1) |->
             Div(eh[k + 1].equity - eh[k].equity, eh[k].equity)]

\* np.std(r) > 0: the values of r are not all the same
Deviates(r) == \E j, k \in 1..Len(r) : r[j] # r[k]

\* returns[returns < 0]
Downside(r) == SelectSeq(r, LAMBDA x : x < 0)

\* the sign of a ratio mean / std * sqrt(252), std > 0: the sign of the sum
Sign(x) == IF x > 0 THEN 1 ELSE IF x < 0 THEN -1 ELSE 0

\* a float that is a number, and float("inf")
Finite(v) == [inf |-> FALSE, value |-> v]

Infinite == [inf |-> TRUE, value |-> 0]

\* get_metrics: the values of the SELL trades valued > 0 (winning = TRUE) or <= 0
SellValues(trades, winning) ==
    LET picked == SelectSeq(trades, LAMBDA t : t.side = "SELL"
                                        /\ (TradeValue(t) > 0) = winning)
    IN [k \in 1..Len(picked) |-> TradeValue(picked[k])]

\* get_metrics: gross_profit and gross_loss
gross_profit(trades) == SumSeq(SellValues(trades, TRUE))

gross_loss(trades) == Abs(SumSeq(SellValues(trades, FALSE)))

\* get_metrics: gross_profit / gross_loss if gross_loss > 0 else float("inf")
profit_factor(trades) ==
    IF gross_loss(trades) > 0
    THEN Finite(Div(gross_profit(trades), gross_loss(trades)))
    ELSE Infinite

\* get_metrics: the Sharpe ratio, carried by its sign
sharpe(r) ==
    IF Len(r) > 1 /\ Deviates(r) THEN Sign(SumSeq(r)) ELSE 0

\* get_metrics: the Sortino ratio, carried by its sign
sortino(r) ==
    IF Len(Downside(r)) > 0 /\ Deviates(Downside(r))
    THEN Sign(SumSeq(r)) ELSE 0

\* Portfolio.get_metrics.  sharpe_ratio and sortino_ratio are carried by their
\* sign (0 exactly where the code leaves them at 0.0 or the mean return is 0).
get_metrics(pf) ==
    IF Len(get_returns(pf.equity_history)) = 0
    THEN [total_return_pct |-> 0, sharpe_ratio |-> 0, sortino_ratio |-> 0,
          max_drawdown_pct |-> 0, win_rate |-> 0, profit_factor |-> Finite(0),
          avg_trade_pnl |-> 0, num_trades |-> 0]
    ELSE LET total_return ==
                 Div(total_equity(pf) - pf.initial_capital, pf.initial_capital)
             n == Len(pf.trades)
             winning_trades ==
                 {k \in 1..n : pf.trades[k].side = "SELL"
                                /\ TradeValue(pf.trades[k]) > 0}
         IN [total_return_pct |-> total_return * 100,
             sharpe_ratio     |-> sharpe(get_returns(pf.equity_history)),
             sortino_ratio    |-> sortino(get_returns(pf.equity_history)),
             profit_factor    |-> profit_factor(pf.trades),
             max_drawdown_pct |->
                 MaxDrawdown(pf.equity_history, Len(pf.equity_history)) * 100,
             win_rate         |->
                 (IF n > 0 THEN (Cardinality(winning_trades) * Scale) \div n
                  ELSE 0) * 100,
             avg_trade_pnl    |->
                 IF n > 0 THEN Mul(total_return, pf.initial_capital) \div n
                 ELSE 0,
             num_trades       |-> n]

-----------------------------------------------------------------------------
(* core/backtest.py: Backtest.run *)

\* the bounds of the model
MaxBars == 3

MaxRuns == 2

\* run(data, symbol="ASSET")
symbol == "ASSET"

\* Backtest._portfolio = None
NoPortfolio ==
    [initial_capital |-> 0, cash |-> 0, positions |-> [s \in {} |-> 0],
     trades |-> <<>>, equity_history |-> <<>>]

\* the local `signal` before the strategy has been asked
NoSignal == NewSignal("HOLD", "", 0, 0)

\* _calculate_position_size: observations needed before Kelly sizing
MinHistory == 10

\* _calculate_position_size: the fixed fraction of cash used until then
BootstrapFraction == 20

\* np.mean of a non-empty list
Mean(s) == SumSeq(s) \div Len(s)

\* the value as it would be if the signal's strength and confidence were
\* left out of it
position_value_unweighted(sig, w, l) ==
    IF Len(w) + Len(l) < MinHistory
    THEN Mul(portfolio.cash, BootstrapFraction)
    ELSE LET win_rate == (Len(w) * Scale) \div (Len(w) + Len(l))
             avg_win  == IF w # <<>> THEN Mean(w) ELSE 0
             avg_loss == IF l # <<>> THEN Mean(l) ELSE Scale
         IN IF ZeroOdds(avg_win, avg_loss) THEN 0
            ELSE calculate_position_size(risk_manager, win_rate, avg_win,
                                         avg_loss, portfolio.cash, NoVolatility)

\* Backtest._calculate_position_size: the value to put into the position,
\* for a signal that is not HOLD
position_value(sig, w, l) ==
    IF Len(w) + Len(l) < MinHistory
    THEN Mul(portfolio.cash, BootstrapFraction)
    ELSE LET win_rate == (Len(w) * Scale) \div (Len(w) + Len(l))
             avg_win  == IF w # <<>> THEN Mean(w) ELSE 0
             avg_loss == IF l # <<>> THEN Mean(l) ELSE Scale
             \* np.mean gives numpy floats: with odds of 0 the Kelly fraction
             \* is -inf, not an exception, and the sizer returns 0.0
             risk_adjusted ==
                 IF ZeroOdds(avg_win, avg_loss) THEN 0
                 ELSE calculate_position_size(risk_manager, win_rate, avg_win,
                                              avg_loss, portfolio.cash,
                                              NoVolatility)
         IN Mul(Mul(risk_adjusted, sig.strength), sig.confidence)

\* the size as it would be if the value were not converted to shares
CalcPositionSize_undivided(sig, price, w, l) ==
    IF sig.signal_type = "HOLD" THEN 0 ELSE position_value(sig, w, l)

\* Backtest._calculate_position_size
CalcPositionSize(sig, price, w, l) ==
    IF sig.signal_type = "HOLD" THEN 0
    ELSE Div(position_value(sig, w, l), price)

\* the order of the bar as it would be if run() built it for every signal
OrderFor_unguarded(sig, size) ==
    [symbol   |-> sig.symbol,
     side     |-> IF sig.signal_type = "LONG" THEN "BUY" ELSE "SELL",
     quantity |-> size]

\* Backtest.run: the order of this bar, or None
OrderFor(sig, size) ==
    IF size > 0 /\ sig.signal_type # "HOLD"
    THEN to_order(sig, size)
    ELSE NoOrder

\* Backtest.run: the realized result tallied after a fill
TallyPnl(pf, trade) == TradeValue(trade) - cost_basis(pf.positions[symbol])

\* Backtest.run: does the fill add an observation to the tally?
Tallied(pf, trade) == trade.side = "SELL" /\ symbol \in DOMAIN pf.positions

\* Backtest.run: the BacktestResult, less the names and dates
BacktestResult(pf) ==
    [initial_capital |-> backtest.initial_capital,
     final_equity    |-> total_equity(pf),
     metrics         |-> get_metrics(pf),
     equity_curve    |-> pf.equity_history,
     trades          |-> pf.trades]

\* the row the loop is at
Row == data[i + 1]

\* the prices of the rows
Prices == {100 * Scale, 200 * Scale}

\* what a strategy may answer: any type, for the symbol it was handed
Signals ==
    {NewSignal("LONG", symbol, 1000, 1000),
     NewSignal("SHORT", symbol, 1000, 500),
     NewSignal("CLOSE", symbol, 500, 1000),
     NewSignal("HOLD", symbol, 0, 0)}

\* the rows that may follow the rows d: the next timestamp, a price, and the
\* signal a deterministic strategy returns on the history ending at that row
NextRows(d) ==
    [timestamp : {Len(d) + 1}, close : Prices, reply : Signals]

\* run(): the checks and initialisations before the loop
StartRun ==
    /\ pc \in {"idle", "done"}
    /\ run_no < MaxRuns
    /\ run_no' = run_no + 1
    /\ portfolio' = NewPortfolio(backtest.initial_capital)
    /\ risk_manager' = [risk_manager EXCEPT !.peak_equity = backtest.initial_capital]
    /\ wins' = <<>>
    /\ losses' = <<>>
    /\ i' = 0
    /\ pc' = "mark"
    /\ signal' = NoSignal
    /\ position_size' = 0
    /\ ledger_log' = <<>>
    /\ state_log' = <<>>
    /\ UNCHANGED <<backtest, data, strategy_log, results, call>>

\* rows as a DataFrame may hold them: run() asks only that the index is a
\* DatetimeIndex (line 102), which may repeat a timestamp or go back in time
AnyRows(d) ==
    [timestamp : 1..MaxBars,
     close     : {100 * Scale},
     reply     : {NewSignal("LONG", symbol, 1000, 1000),
                  NewSignal("HOLD", symbol, 0, 0)}]

\* the for loop takes the next row; update_prices({symbol: current_price}).
\* The first run reads the series row by row, the row being one of `rows`, up
\* to n rows; a later run is handed the same series again.
MarkUpTo(rows, n) ==
    /\ pc = "mark"
    /\ \/ /\ i < Len(data)
          /\ UNCHANGED data
       \/ /\ i = Len(data)
          /\ run_no = 1
          /\ Len(data) < n
          /\ \E row \in rows : data' = Append(data, row)
    /\ portfolio' = update_prices(portfolio, [s \in {symbol} |-> data'[i + 1].close])
    /\ pc' = "gate"
    /\ UNCHANGED <<backtest, risk_manager, strategy_log, run_no, i, signal,
                   position_size, wins, losses, results, ledger_log, state_log, call>>

\* the loop step on a series of at most MaxBars rows
MarkRows(rows) == MarkUpTo(rows, MaxBars)

\* the loop step on a series in timestamp order
Mark == MarkRows(NextRows(data))

\* the loop step on any series run() accepts
MarkAny == MarkRows(AnyRows(data))

\* the veto as it would be if it went on to the next row without recording
GateVeto_unrecorded ==
    /\ pc = "gate"
    /\ ~can_trade(risk_manager, total_equity(portfolio))
    /\ i' = i + 1
    /\ pc' = "mark"
    /\ UNCHANGED <<backtest, risk_manager, portfolio, data, strategy_log, run_no,
                   signal, position_size, wins, losses, results, ledger_log, state_log, call>>

\* the veto as it would be if the strategy were asked before the gate
GateVeto_signalled ==
    /\ pc = "gate"
    /\ ~can_trade(risk_manager, total_equity(portfolio))
    /\ strategy_log' = Append(strategy_log,
                              [timestamp |-> Row.timestamp, signal |-> Row.reply])
    /\ portfolio' = record_equity(portfolio, Row.timestamp)
    /\ i' = i + 1
    /\ pc' = "mark"
    /\ UNCHANGED <<backtest, risk_manager, data, run_no, signal,
                   position_size, wins, losses, results, ledger_log, state_log, call>>

\* if not can_trade(total_equity): record_equity(timestamp); continue
GateVeto ==
    /\ pc = "gate"
    /\ ~can_trade(risk_manager, total_equity(portfolio))
    /\ portfolio' = record_equity(portfolio, Row.timestamp)
    /\ i' = i + 1
    /\ pc' = "mark"
    /\ UNCHANGED <<backtest, risk_manager, data, strategy_log, run_no, signal,
                   position_size, wins, losses, results, ledger_log, state_log, call>>

GatePass ==
    /\ pc = "gate"
    /\ can_trade(risk_manager, total_equity(portfolio))
    /\ pc' = "signal"
    /\ UNCHANGED <<backtest, risk_manager, portfolio, data, strategy_log, run_no,
                   i, signal, position_size, wins, losses, results, ledger_log, state_log,
                   call>>

\* the MarketData as it would be if the whole frame were handed on
market_data_whole(d, k) ==
    [bars |-> d, current_price |-> d[k].close]

\* MarketData(bars=self._create_bars(data.iloc[: i + 1]), current_price=...)
\* at the k-th row, k = i + 1
market_data(d, k) ==
    [bars |-> SubSeq(d, 1, k), current_price |-> d[k].close]

\* strategy.generate_signal(market_data, timestamp): a deterministic strategy
\* answers on the history it is handed; a row carries, as `reply`, its answer
\* to the history that ends at that row
generate_signal(md) == Last(md.bars).reply

\* signal = strategy.generate_signal(...); strategy.record_signal(...)
GenerateSignal ==
    /\ pc = "signal"
    /\ signal' = generate_signal(market_data(data, i + 1))
    /\ strategy_log' = Append(strategy_log,
                              [timestamp |-> Row.timestamp,
                               signal |-> generate_signal(market_data(data, i + 1))])
    /\ pc' = "size"
    /\ UNCHANGED <<backtest, risk_manager, portfolio, data, run_no, i,
                   position_size, wins, losses, results, ledger_log, state_log, call>>

\* position_size = self._calculate_position_size(...)
Size ==
    /\ pc = "size"
    /\ position_size' = CalcPositionSize(signal, Row.close, wins, losses)
    /\ pc' = "execute"
    /\ UNCHANGED <<backtest, risk_manager, portfolio, data, strategy_log, run_no,
                   i, signal, wins, losses, results, ledger_log, state_log, call>>

\* the order is executed at the bar's price and its result tallied
Execute ==
    /\ pc = "execute"
    /\ OrderFor(signal, position_size) # NoOrder
    /\ LET order == OrderFor(signal, position_size)
           pf    == execute_order(portfolio, order, Row.close, Row.timestamp)
           trade == Last(pf.trades)
           pnl   == TallyPnl(pf, trade)
       IN /\ portfolio' = pf
          /\ ledger_log' = LogLedger(portfolio)
          /\ wins' = IF Tallied(pf, trade) /\ pnl > 0
                     THEN Append(wins, pnl) ELSE wins
          /\ losses' = IF Tallied(pf, trade) /\ ~(pnl > 0)
                       THEN Append(losses, Abs(pnl)) ELSE losses
    /\ pc' = "record"
    /\ UNCHANGED <<backtest, risk_manager, data, strategy_log, run_no, i, signal,
                   position_size, results, state_log, call>>

\* no order on this bar
NoExecute ==
    /\ pc = "execute"
    /\ OrderFor(signal, position_size) = NoOrder
    /\ pc' = "record"
    /\ UNCHANGED <<backtest, risk_manager, portfolio, data, strategy_log, run_no,
                   i, signal, position_size, wins, losses, results, ledger_log, state_log,
                   call>>

\* self._portfolio.record_equity(timestamp)
Record ==
    /\ pc = "record"
    /\ portfolio' = record_equity(portfolio, Row.timestamp)
    /\ pc' = "update"
    /\ UNCHANGED <<backtest, risk_manager, data, strategy_log, run_no, i, signal,
                   position_size, wins, losses, results, ledger_log, state_log, call>>

\* self.risk_manager.update_state(...); the loop goes to the next row
UpdateState ==
    /\ pc = "update"
    /\ risk_manager' = update_state(risk_manager, total_equity(portfolio), 0,
                                    Cardinality(DOMAIN portfolio.positions))
    /\ state_log' = Append(state_log, i + 1)
    /\ i' = i + 1
    /\ pc' = "mark"
    /\ UNCHANGED <<backtest, portfolio, data, strategy_log, run_no, signal,
                   position_size, wins, losses, results, ledger_log, call>>

\* the rows are exhausted: get_metrics() and the BacktestResult.  (On an empty
\* series data.index[0] raises and run returns nothing.)
Finish ==
    /\ pc = "mark"
    /\ i >= 1
    /\ i = Len(data)
    /\ results' = Append(results, BacktestResult(portfolio))
    /\ pc' = "done"
    /\ UNCHANGED <<backtest, risk_manager, portfolio, data, strategy_log, run_no,
                   i, signal, position_size, wins, losses, ledger_log, state_log, call>>

\* the configurations a Backtest is constructed with
InitialCapitals == {10000 * Scale}

CommissionRates == {1}

Sizers == {NewKellyCriterion(250, 100, 10)}

RiskManagers ==
    {NewRiskManager(sizer, dd, 30, n) :
        sizer \in Sizers, dd \in {150, 10}, n \in {10, 1}}

NoCall == [op |-> "none"]

\* Backtest(strategy, initial_capital, risk_manager): constructed, not yet run
Init ==
    /\ backtest \in [initial_capital : InitialCapitals,
                      commission_rate : CommissionRates]
    /\ risk_manager \in RiskManagers
    /\ portfolio = NoPortfolio
    /\ data = <<>>
    /\ strategy_log = <<>>
    /\ run_no = 0
    /\ i = 0
    /\ pc = "idle"
    /\ signal = NoSignal
    /\ position_size = 0
    /\ wins = <<>>
    /\ losses = <<>>
    /\ results = <<>>
    /\ ledger_log = <<>>
    /\ state_log = <<>>
    /\ call = NoCall

Next ==
    \/ StartRun
    \/ Mark
    \/ GateVeto
    \/ GatePass
    \/ GenerateSignal
    \/ Size
    \/ Execute
    \/ NoExecute
    \/ Record
    \/ UpdateState
    \/ Finish

Spec == Init /\ [][Next]_vars

\* Backtest.run on any series it accepts, in timestamp order or not
NextAnyData ==
    \/ StartRun
    \/ MarkAny
    \/ GateVeto
    \/ GatePass
    \/ GenerateSignal
    \/ Size
    \/ Execute
    \/ NoExecute
    \/ Record
    \/ UpdateState
    \/ Finish

SpecAnyData == Init /\ [][NextAnyData]_vars

-----------------------------------------------------------------------------
(* Backtest.run on series long enough for the tally to reach MinHistory *)

\* the bound on the rows of such a series
LongBars == 14

\* the price at which these series open positions, and the one they sell at
EntryPrice == 100 * Scale

ExitPrice == 1100 * Scale

\* the rows of d on which the strategy answered SHORT
ShortRows(d) == {k \in 1..Len(d) : d[k].reply.signal_type = "SHORT"}

\* the rows that may follow the rows d: one to three bars answered LONG at
\* the entry price, then MinHistory bars answered SHORT at the exit price
\* (each sells a part of the position: with one BUY before them every sale is
\* tallied as a win, with three every sale as a loss), then any signal
ScriptRows(d) ==
    IF ShortRows(d) = {}
    THEN [timestamp : {Len(d) + 1}, close : {EntryPrice},
          reply : {NewSignal("LONG", symbol, 1000, 1000)}
                      \cap {r \in Signals : Len(d) < 3}]
         \cup [timestamp : {Len(d) + 1}, close : {ExitPrice},
               reply : {NewSignal("SHORT", symbol, 1000, 500)}
                           \cap {r \in Signals : Len(d) >= 1}]
    ELSE IF Cardinality(ShortRows(d)) < MinHistory
    THEN [timestamp : {Len(d) + 1}, close : {ExitPrice},
          reply : {NewSignal("SHORT", symbol, 1000, 500)}]
    ELSE [timestamp : {Len(d) + 1}, close : {ExitPrice}, reply : Signals]

\* the loop step on such a series
MarkScript == MarkUpTo(ScriptRows(data), LongBars)

\* Backtest(strategy, initial_capital, commission_rate=..., risk_manager=...)
InitLongRun ==
    /\ backtest \in [initial_capital : InitialCapitals,
                      commission_rate : {0, 1}]
    /\ risk_manager \in RiskManagers
    /\ portfolio = NoPortfolio
    /\ data = <<>>
    /\ strategy_log = <<>>
    /\ run_no = 0
    /\ i = 0
    /\ pc = "idle"
    /\ signal = NoSignal
    /\ position_size = 0
    /\ wins = <<>>
    /\ losses = <<>>
    /\ results = <<>>
    /\ ledger_log = <<>>
    /\ state_log = <<>>
    /\ call = NoCall

NextLongRun ==
    \/ StartRun
    \/ MarkScript
    \/ GateVeto
    \/ GatePass
    \/ GenerateSignal
    \/ Size
    \/ Execute
    \/ NoExecute
    \/ Record
    \/ UpdateState
    \/ Finish

SpecLongRun == InitLongRun /\ [][NextLongRun]_vars

-----------------------------------------------------------------------------
(* core/backtest.py: Backtest.run_vectorized *)

\* returns = np.diff(prices) / prices[:-1]
price_returns(d) ==
    [k \in 1..(Len(d) - 1) |-> Div(d[k + 1].close - d[k].close, d[k].close)]

\* positions = np.where(signals.values[:-1] == 1, 1, 0)
vec_positions(d) ==
    [k \in 1..(Len(d) - 1) |-> IF d[k].flag = 1 THEN 1 ELSE 0]

\* np.abs(np.diff(np.concatenate([[0], positions, [0]])))[:len(returns)]
position_changes(d) ==
    [k \in 1..(Len(d) - 1) |->
        Abs(vec_positions(d)[k] - (IF k = 1 THEN 0 ELSE vec_positions(d)[k - 1]))]

\* strategy_returns = positions * returns - position_changes * commission_rate
strategy_returns(d, commission_rate) ==
    [k \in 1..(Len(d) - 1) |->
        vec_positions(d)[k] * price_returns(d)[k]
            - position_changes(d)[k] * commission_rate]

\* np.cumprod(1 + strategy_returns), at entry k
RECURSIVE cumprod(_, _)
cumprod(sr, k) ==
    IF k = 1 THEN Scale + sr[1]
    ELSE Mul(cumprod(sr, k - 1), Scale + sr[k])

\* the equity curve: initial_capital, then initial_capital * cumprod, on the
\* index of the data
vec_equity(d, initial_capital, sr) ==
    [k \in 1..Len(d) |->
        [timestamp |-> d[k].timestamp,
         equity    |-> IF k = 1 THEN initial_capital
                       ELSE Mul(initial_capital, cumprod(sr, k - 1))]]

\* Backtest._calculate_vectorized_metrics
calculate_vectorized_metrics(sr, equity) ==
    LET total_return ==
            Div(Last(equity).equity - equity[1].equity, equity[1].equity)
        positive == {k \in 1..Len(sr) : sr[k] > 0}
    IN [total_return_pct |-> total_return * 100,
        sharpe_ratio     |-> sharpe(sr),
        sortino_ratio    |-> sortino(sr),
        max_drawdown_pct |-> MaxDrawdown(equity, Len(equity)) * 100,
        win_rate         |->
            (IF Len(sr) > 0
             THEN (Cardinality(positive) * Scale) \div Len(sr) ELSE 0) * 100,
        profit_factor    |-> Finite(0),
        avg_trade_pnl    |-> 0,
        num_trades       |-> 0]

\* Backtest.run_vectorized: the BacktestResult, less the names and dates
run_vectorized(bt, d) ==
    LET sr     == strategy_returns(d, bt.commission_rate)
        equity == vec_equity(d, bt.initial_capital, sr)
    IN [initial_capital |-> bt.initial_capital,
        final_equity    |-> Last(equity).equity,
        metrics         |-> calculate_vectorized_metrics(sr, equity),
        equity_curve    |-> equity,
        trades          |-> <<>>]

\* the series handed to run_vectorized with what signal_func returns on it:
\* 1 to MaxBars rows, each a price and a signal value
VecSeries ==
    UNION {[1..n -> [close : Prices, flag : {0, 1}]] : n \in 1..MaxBars}

\* Backtest(strategy, initial_capital, risk_manager) and the data of the call
InitVectorized ==
    /\ backtest \in [initial_capital : InitialCapitals,
                      commission_rate : CommissionRates]
    /\ risk_manager \in {NewRiskManager(sizer, 150, 30, 10) : sizer \in Sizers}
    /\ portfolio = NoPortfolio
    /\ \E series \in VecSeries :
          data = [k \in 1..Len(series) |->
                     [timestamp |-> k, close |-> series[k].close,
                      flag |-> series[k].flag]]
    /\ strategy_log = <<>>
    /\ run_no = 0
    /\ i = 0
    /\ pc = "idle"
    /\ signal = NoSignal
    /\ position_size = 0
    /\ wins = <<>>
    /\ losses = <<>>
    /\ results = <<>>
    /\ ledger_log = <<>>
    /\ state_log = <<>>
    /\ call = NoCall

\* backtest.run_vectorized(data, signal_func)
RunVectorized ==
    /\ pc = "idle"
    /\ results' = Append(results, run_vectorized(backtest, data))
    /\ pc' = "done"
    /\ UNCHANGED <<backtest, risk_manager, portfolio, data, strategy_log, run_no,
                   i, signal, position_size, wins, losses, ledger_log, state_log, call>>

NextVectorized == RunVectorized

SpecVectorized == InitVectorized /\ [][NextVectorized]_vars

-----------------------------------------------------------------------------
(* A Portfolio used directly: any orders, any price updates *)

\* the bound of this use: orders executed and equity records taken, together
MaxOrders == 3

Symbols == {symbol, "OTHER"}

Quantities == {1 * Scale, 2 * Scale}

\* Portfolio(initial_capital=...)
InitPortfolio ==
    /\ backtest \in [initial_capital : InitialCapitals,
                      commission_rate : CommissionRates]
    /\ risk_manager \in {NewRiskManager(sizer, 150, 30, 10) : sizer \in Sizers}
    /\ portfolio = NewPortfolio(backtest.initial_capital)
    /\ data = <<>>
    /\ strategy_log = <<>>
    /\ run_no = 0
    /\ i = 0
    /\ pc = "api"
    /\ signal = NoSignal
    /\ position_size = 0
    /\ wins = <<>>
    /\ losses = <<>>
    /\ results = <<>>
    /\ ledger_log = <<>>
    /\ state_log = <<>>
    /\ call = NoCall

\* portfolio.execute_order(Order(sym, side, quantity), fill_price, timestamp)
ExecuteOrder ==
    /\ Len(portfolio.trades) + Len(portfolio.equity_history) < MaxOrders
    /\ \E sym \in Symbols, side \in {"BUY", "SELL"}, quantity \in Quantities,
          fill_price \in Prices :
          portfolio' = execute_order(portfolio,
                                     [symbol |-> sym, side |-> side,
                                      quantity |-> quantity],
                                     fill_price, Len(portfolio.trades) + 1)
    /\ ledger_log' = LogLedger(portfolio)
    /\ UNCHANGED <<backtest, risk_manager, runVars, state_log, call>>

\* portfolio.update_prices(prices)
UpdatePrices ==
    /\ \E syms \in SUBSET Symbols : \E prices \in [syms -> Prices] :
          portfolio' = update_prices(portfolio, prices)
    /\ UNCHANGED <<backtest, risk_manager, runVars, ledger_log, state_log, call>>

\* portfolio.record_equity(timestamp)
RecordEquity ==
    /\ Len(portfolio.trades) + Len(portfolio.equity_history) < MaxOrders
    /\ portfolio' = record_equity(portfolio, Len(portfolio.equity_history) + 1)
    /\ UNCHANGED <<backtest, risk_manager, runVars, ledger_log, state_log, call>>

NextPortfolio ==
    \/ ExecuteOrder
    \/ UpdatePrices
    \/ RecordEquity

SpecPortfolio == InitPortfolio /\ [][NextPortfolio]_vars

-----------------------------------------------------------------------------
(* A RiskManager and its KellyCriterion called directly: the state is set,  *)
(* then one method is called and its arguments and result kept in `call`   *)

Equities == {8500 * Scale, 8600 * Scale, 10000 * Scale}

Capitals == {0, 8500 * Scale, 10000 * Scale}

DailyPnls == {-300 * Scale, -299 * Scale, 0}

WinRates == {400, 500, 600, 1000}

AvgWins == {0, 100 * Scale, 200 * Scale}

AvgLosses == {-100 * Scale, 0, 100 * Scale, 200 * Scale}

Fractions == {250, 500, 1000}

Volatilities == {<<-10>>, <<0>>, <<10>>, <<50>>, <<100>>}

\* <<max_position_pct, min_position_pct>> as a caller may pass them: the
\* dataclass takes any two floats, in order or not
SizerBounds == {<<100, 10>>, <<500, 10>>, <<100, 200>>}

DirectSizers ==
    {NewKellyCriterion(f, b[1], b[2]) : f \in Fractions, b \in SizerBounds}

\* RiskManager(...), with the state fields as a caller may have set them
InitRisk ==
    /\ backtest \in [initial_capital : InitialCapitals,
                      commission_rate : CommissionRates]
    /\ \E sizer \in DirectSizers, n \in {5}, peak \in {0, 10000 * Scale},
          pnl \in DailyPnls, open \in {0, 5} :
          risk_manager =
              [NewRiskManager(sizer, 150, 30, n) EXCEPT
                  !.peak_equity = peak, !.daily_pnl = pnl,
                  !.open_positions = open]
    /\ portfolio = NoPortfolio
    /\ data = <<>>
    /\ strategy_log = <<>>
    /\ run_no = 0
    /\ i = 0
    /\ pc = "api"
    /\ signal = NoSignal
    /\ position_size = 0
    /\ wins = <<>>
    /\ losses = <<>>
    /\ results = <<>>
    /\ ledger_log = <<>>
    /\ state_log = <<>>
    /\ call = NoCall

\* risk_manager.can_trade(current_equity)
CallCanTrade ==
    /\ call = NoCall
    /\ \E current_equity \in Equities :
          call' = [op |-> "can_trade", current_equity |-> current_equity,
                   result |-> can_trade(risk_manager, current_equity)]
    /\ UNCHANGED <<backtest, risk_manager, portfolio, runVars, ledger_log, state_log>>

\* risk_manager.update_state(current_equity, daily_pnl, open_positions)
CallUpdateState ==
    /\ call = NoCall
    /\ \E current_equity \in Equities, pnl \in DailyPnls, open \in {0, 5} :
          risk_manager' = update_state(risk_manager, current_equity, pnl, open)
    /\ UNCHANGED <<backtest, portfolio, runVars, ledger_log, state_log, call>>

\* sizer.calculate_kelly_fraction(win_rate, avg_win, avg_loss) with Python
\* floats: a zero divisor raises ZeroDivisionError
CallKellyFraction ==
    /\ call = NoCall
    /\ \E win_rate \in WinRates, avg_win \in AvgWins, avg_loss \in AvgLosses :
          call' = [op |-> "kelly_fraction", win_rate |-> win_rate,
                   avg_win |-> avg_win, avg_loss |-> avg_loss,
                   raised |-> ZeroOdds(avg_win, avg_loss),
                   result |-> IF ZeroOdds(avg_win, avg_loss) THEN 0
                              ELSE calculate_kelly_fraction(win_rate, avg_win,
                                                            avg_loss)]
    /\ UNCHANGED <<backtest, risk_manager, portfolio, runVars, ledger_log, state_log>>

\* sizer.calculate_position_size(win_rate, avg_win, avg_loss, capital)
CallKellySize ==
    /\ call = NoCall
    /\ \E win_rate \in WinRates, avg_win \in AvgWins, avg_loss \in AvgLosses,
          capital \in Capitals :
          call' = [op |-> "kelly_size", win_rate |-> win_rate,
                   avg_win |-> avg_win, avg_loss |-> avg_loss,
                   capital |-> capital,
                   raised |-> ZeroOdds(avg_win, avg_loss),
                   result |-> IF ZeroOdds(avg_win, avg_loss) THEN 0
                              ELSE kelly_position_size(
                                       risk_manager.position_sizer, win_rate,
                                       avg_win, avg_loss, capital)]
    /\ UNCHANGED <<backtest, risk_manager, portfolio, runVars, ledger_log, state_log>>

\* risk_manager.calculate_position_size(win_rate, avg_win, avg_loss, capital,
\* volatility)
CallPositionSize ==
    /\ call = NoCall
    /\ \E win_rate \in WinRates, avg_win \in AvgWins, avg_loss \in AvgLosses,
          capital \in Capitals, volatility \in Volatilities \cup {NoVolatility} :
          call' = [op |-> "position_size", win_rate |-> win_rate,
                   avg_win |-> avg_win, avg_loss |-> avg_loss,
                   capital |-> capital, volatility |-> volatility,
                   raised |-> ZeroOdds(avg_win, avg_loss),
                   result |-> IF ZeroOdds(avg_win, avg_loss) THEN 0
                              ELSE calculate_position_size(
                                       risk_manager, win_rate, avg_win,
                                       avg_loss, capital, volatility)]
    /\ UNCHANGED <<backtest, risk_manager, portfolio, runVars, ledger_log, state_log>>

NextRisk ==
    \/ CallCanTrade
    \/ CallUpdateState
    \/ CallKellyFraction
    \/ CallKellySize
    \/ CallPositionSize

SpecRisk == InitRisk /\ [][NextRisk]_vars

-----------------------------------------------------------------------------
(* Properties of Backtest.run (specification Spec) *)

\* the equity of a ledger with every position valued at one price
EquityAt(pf, price) ==
    pf.cash + SumOver([s \in DOMAIN pf.positions |->
                          Mul(pf.positions[s].quantity, price)],
                      DOMAIN pf.positions)

\* C1: whenever a step of run appends to the equity history (a recorded or a
\* vetoed bar), the appended equity is the cash at that moment plus, over all
\* open positions, quantity times the price of the bar the loop is at.
C1_EquityMarkedToBar ==
    [][Len(portfolio'.equity_history) = Len(portfolio.equity_history) + 1
       => Last(portfolio'.equity_history).equity
              = EquityAt(portfolio', Row.close)]_vars

\* a bar has been recorded while a position bought at another price is held
C1_Witness ==
    /\ pc = "update"
    /\ symbol \in DOMAIN portfolio.positions
    /\ portfolio.positions[symbol].avg_cost # Row.close
    /\ Len(portfolio.trades) = 1
    /\ Last(portfolio.trades).timestamp < Row.timestamp
    /\ Last(portfolio.equity_history).equity = EquityAt(portfolio, Row.close)

\* every row read so far got HOLD from the strategy
AllHold == \A k \in 1..Len(data) : data[k].reply.signal_type = "HOLD"

\* C2: while the strategy has answered HOLD on every bar, no trade has been
\* executed, no fee charged, cash is the initial capital on every bar, every
\* recorded equity is the initial capital, and a finished run returns
\* final_equity = initial_capital with an empty trade list.
C2_HoldNeverTrades ==
    (pc \notin {"idle", "api"} /\ AllHold) =>
        /\ portfolio.trades = <<>>
        /\ portfolio.cash = backtest.initial_capital
        /\ \A k \in 1..Len(portfolio.equity_history) :
               portfolio.equity_history[k].equity = backtest.initial_capital
        /\ pc = "done" =>
               /\ Last(results).final_equity = backtest.initial_capital
               /\ Last(results).trades = <<>>

\* a run over several rows, all answered HOLD, has finished
C2_Witness ==
    /\ pc = "done"
    /\ Len(data) >= 2
    /\ AllHold
    /\ Last(results).final_equity = backtest.initial_capital

\* C3: the loop records equity exactly once per row, in row order: between
\* rows the history has one entry per row consumed, within a row at most one
\* more, the k-th entry carries the k-th row's timestamp, and a finished run
\* returns an equity curve with exactly one entry per row.
C3_OneRecordPerBar ==
    pc \notin {"idle", "api"} =>
        /\ pc \in {"mark", "done"} => Len(portfolio.equity_history) = i
        /\ pc \in {"gate", "signal", "size", "execute", "record"}
               => Len(portfolio.equity_history) = i
        /\ pc = "update" => Len(portfolio.equity_history) = i + 1
        /\ \A k \in 1..Len(portfolio.equity_history) :
               portfolio.equity_history[k].timestamp = data[k].timestamp
        /\ pc = "done" =>
               /\ Len(Last(results).equity_curve) = Len(data)
               /\ \A k \in 1..Len(data) :
                      Last(results).equity_curve[k].timestamp = data[k].timestamp

\* a finished run in which one bar traded and a later one was vetoed
C3_Witness ==
    /\ pc = "done"
    /\ run_no = 1
    /\ portfolio.trades # <<>>
    /\ Len(strategy_log) < Len(data)
    /\ Len(portfolio.equity_history) = Len(data)

\* C4: a second run on the same Backtest and RiskManager, with the same data
\* and the same strategy answers, returns the metrics of the first.
C4_RerunSameMetrics ==
    Len(results) >= 2 => results[2].metrics = results[1].metrics

\* C14: in the metrics of every result, each ratio whose denominator is zero
\* or whose history is too short is 0: sharpe_ratio with fewer than two
\* returns or no deviation, sortino_ratio with no or no deviating negative
\* returns, win_rate and avg_trade_pnl with no trades, and profit_factor
\* whenever the gross loss is zero.
C14_RatiosDefaultToZero ==
    \A k \in 1..Len(results) :
        \A r \in {get_returns(results[k].equity_curve)} :
            /\ (Len(r) < 2 \/ ~Deviates(r))
                   => results[k].metrics.sharpe_ratio = 0
            /\ (Downside(r) = <<>> \/ ~Deviates(Downside(r)))
                   => results[k].metrics.sortino_ratio = 0
            /\ results[k].trades = <<>>
                   => /\ results[k].metrics.win_rate = 0
                      /\ results[k].metrics.avg_trade_pnl = 0
            /\ gross_loss(results[k].trades) = 0
                   => results[k].metrics.profit_factor = Finite(0)

\* the positions by quantity and average cost, the mark price left out
Holdings(pf) ==
    [s \in DOMAIN pf.positions |->
        <<pf.positions[s].quantity, pf.positions[s].avg_cost>>]

\* the step leaves the cash, the holdings, the trade log and the signal
\* history as they are
LedgerUntouched ==
    /\ portfolio'.cash = portfolio.cash
    /\ Holdings(portfolio') = Holdings(portfolio)
    /\ portfolio'.trades = portfolio.trades
    /\ strategy_log' = strategy_log
    /\ signal' = signal

\* C16: on a bar where can_trade(total_equity) is false no signal is
\* requested or recorded and no order executed: the marking of the bar and
\* the step taken at the closed gate leave cash, quantities, average costs and
\* the trade log unchanged, the latter adding one equity record and going on
\* to the next bar.
C16_VetoedBarFrame ==
    [][/\ (pc = "mark" /\ pc' = "gate") => LedgerUntouched
       /\ (pc = "gate" /\ ~can_trade(risk_manager, total_equity(portfolio)))
              => /\ LedgerUntouched
                 /\ Len(portfolio'.equity_history)
                        = Len(portfolio.equity_history) + 1
                 /\ i' = i + 1
                 /\ pc' = "mark"]_vars

\* bar 2 was vetoed with a position held: one signal and one trade for two
\* bars, and the equity recorded moved with the mark price
C16_Witness ==
    /\ pc = "mark"
    /\ i = 2
    /\ Len(strategy_log) = 1
    /\ Len(portfolio.trades) = 1
    /\ DOMAIN portfolio.positions # {}
    /\ Len(portfolio.equity_history) = 2
    /\ portfolio.equity_history[2].equity # portfolio.equity_history[1].equity

\* the place of a step in the bar: MARK, GATE, SIGNAL, SIZE, EXECUTE, RECORD,
\* then the RiskManager state update
Rank(step) ==
    CASE step = "mark"    -> 1
      [] step = "gate"    -> 2
      [] step = "signal"  -> 3
      [] step = "size"    -> 4
      [] step = "execute" -> 5
      [] step = "record"  -> 6
      [] step = "update"  -> 7
      [] OTHER            -> 0

\* within a bar the steps are taken in rising order, none twice; a bar ends
\* with its equity recorded, and only then is the next row taken
StepsInOrder ==
    (pc' # pc /\ Rank(pc) > 0 /\ Rank(pc') > 0) =>
        IF i' = i
        THEN /\ Rank(pc') > Rank(pc)
             /\ pc' = "record" =>
                    Len(portfolio'.equity_history) = i
             /\ pc' = "update" =>
                    Len(portfolio'.equity_history) = i + 1
        ELSE /\ i' = i + 1
             /\ pc' = "mark"
             /\ Len(portfolio'.equity_history) = i'

\* when bar k+1 is about to be marked, bar k has been recorded and the
\* RiskManager state updated for it
BarCompleted ==
    (pc = "mark" /\ i >= 1) =>
        /\ Len(portfolio.equity_history) = i
        /\ state_log # <<>>
        /\ Last(state_log) = i

\* C17: within a bar the steps come in the order MARK, GATE, SIGNAL, SIZE,
\* EXECUTE (optional), RECORD, none of them twice, and the next bar's MARK
\* does not start before this bar's RECORD and RiskManager state update have
\* completed.
C17_BarPipelineInOrder == [][StepsInOrder]_vars /\ []BarCompleted

\* C18: update_state is called once on every bar, vetoed bars included: after
\* each bar the calls so far are one per bar, open_positions is the number of
\* positions held and peak_equity is not below the bar's equity.
C18_StateUpdatedEveryBar ==
    (pc = "mark" /\ i >= 1) =>
        /\ state_log = [k \in 1..i |-> k]
        /\ risk_manager.open_positions
               = Cardinality(DOMAIN portfolio.positions)
        /\ risk_manager.peak_equity >= Last(portfolio.equity_history).equity

\* the largest of the initial capital and the equity values recorded so far
HighWaterMark ==
    IF portfolio.equity_history = <<>> THEN backtest.initial_capital
    ELSE Max(backtest.initial_capital,
             RunningPeak(portfolio.equity_history,
                         Len(portfolio.equity_history)))

\* C19: during a run peak_equity never decreases from one bar to the next,
\* and after every bar it is the maximum of initial_capital and the equity
\* values recorded so far in the run.
C19_PeakIsHighWaterMark ==
    /\ [][run_no' = run_no
              => risk_manager'.peak_equity >= risk_manager.peak_equity]_vars
    /\ []((pc = "mark" /\ run_no >= 1)
              => risk_manager.peak_equity = HighWaterMark)

\* C20: at most one order is executed per bar, and only on a bar whose gate
\* passed, whose signal is not HOLD and whose computed size is > 0; its
\* quantity is the computed position value divided by the bar's price and it
\* is filled at the bar's price.
C20_OneGuardedOrderPerBar ==
    /\ [][Len(portfolio'.trades) > Len(portfolio.trades) =>
             /\ Len(portfolio'.trades) = Len(portfolio.trades) + 1
             /\ can_trade(risk_manager, total_equity(portfolio))
             /\ Len(strategy_log) > 0
             /\ Last(strategy_log).timestamp = Row.timestamp
             /\ signal = Last(strategy_log).signal
             /\ signal.signal_type # "HOLD"
             /\ position_size > 0
             /\ Last(portfolio'.trades).quantity
                    = Div(position_value(signal, wins, losses), Row.close)
             /\ Last(portfolio'.trades).price = Row.close
             /\ Last(portfolio'.trades).timestamp = Row.timestamp]_vars
    /\ [](\A j, k \in 1..Len(portfolio.trades) :
              j < k => portfolio.trades[j].timestamp
                           < portfolio.trades[k].timestamp)

\* orders were executed on two bars of a run, a BUY and then a SELL
C20_Witness ==
    /\ pc = "record"
    /\ Len(portfolio.trades) = 2
    /\ portfolio.trades[1].side = "BUY"
    /\ portfolio.trades[2].side = "SELL"
    /\ portfolio.trades[2].timestamp = Row.timestamp
    /\ portfolio.trades[2].quantity = position_size
    /\ portfolio.trades[2].price = Row.close

\* the SELL fills of a trade log
SellFills(trades) ==
    Cardinality({k \in 1..Len(trades) : trades[k].side = "SELL"})

\* the realized result of a SELL: its proceeds less the cost basis, at the
\* average cost before the fill, of the quantity sold
Realized(pf, trade) ==
    TradeValue(trade) - Mul(trade.quantity, pf.positions[trade.symbol].avg_cost)

\* C22: the win/loss tally is a tally of realized per-trade results: a BUY
\* fill adds nothing, every SELL fill (one that closes the position included)
\* adds exactly one observation, a win when the proceeds exceed the cost basis
\* of the quantity sold and otherwise a loss of that magnitude; so after k
\* SELL fills the tally holds k observations.
C22_TallyIsRealizedResults ==
    /\ [](Len(wins) + Len(losses) = SellFills(portfolio.trades))
    /\ [][Len(portfolio'.trades) > Len(portfolio.trades) =>
             \A t \in {Last(portfolio'.trades)} :
                 IF t.side = "BUY"
                 THEN wins' = wins /\ losses' = losses
                 ELSE /\ Len(wins') + Len(losses') = Len(wins) + Len(losses) + 1
                      /\ t.symbol \in DOMAIN portfolio.positions =>
                            IF Realized(portfolio, t) > 0
                            THEN wins' = Append(wins, Realized(portfolio, t))
                            ELSE losses'
                                   = Append(losses, -Realized(portfolio, t))]_vars

\* C26: the open-position gate latches.  While open_positions >=
\* max_open_positions the loop is only ever between bars or at the gate: each
\* bar is vetoed (one equity record, on to the next bar, no signal asked, not
\* even a CLOSE), the limit stays reached, no trade is executed and the
\* holdings do not change for the rest of the run.
C26_PositionGateLatches ==
    /\ [](PositionLimitHit(risk_manager) => pc \in {"mark", "gate", "done"})
    /\ [][(PositionLimitHit(risk_manager) /\ pc \in {"mark", "gate"}) =>
             /\ PositionLimitHit(risk_manager')
             /\ portfolio'.trades = portfolio.trades
             /\ Holdings(portfolio') = Holdings(portfolio)
             /\ strategy_log' = strategy_log
             /\ pc = "gate" =>
                    /\ Len(portfolio'.equity_history)
                           = Len(portfolio.equity_history) + 1
                    /\ i' = i + 1
                    /\ pc' = "mark"]_vars

\* bar 1 bought and reached the limit of one open position; bars 2 and 3 were
\* vetoed, bar 3 being one on which the strategy would have answered CLOSE
C26_Witness ==
    /\ pc = "mark"
    /\ i = 3
    /\ PositionLimitHit(risk_manager)
    /\ state_log = <<1>>
    /\ Len(portfolio.trades) = 1
    /\ Len(strategy_log) = 1
    /\ Len(portfolio.equity_history) = 3
    /\ data[3].reply.signal_type = "CLOSE"
    /\ DOMAIN portfolio.positions = {symbol}

\* the series as run_vectorized sees it, with a signal_func that returns 1 on
\* the bars the strategy answers LONG on and 0 elsewhere
AsSignalSeries(d) ==
    [k \in 1..Len(d) |->
        [timestamp |-> d[k].timestamp, close |-> d[k].close,
         flag |-> IF d[k].reply.signal_type = "LONG" THEN 1 ELSE 0]]

\* the equity curve of run_vectorized on the series v
VecCurve(v) ==
    vec_equity(v, backtest.initial_capital,
               strategy_returns(v, backtest.commission_rate))

\* the trades of a log up to the bar with timestamp t
TradesThrough(trades, t) ==
    SelectSeq(trades, LAMBDA trade : trade.timestamp <= t)

\* C24: no look-ahead.  At bar i the strategy is handed the bars up to bar i,
\* in order, with bar i's price as current_price, so the signal recorded for a
\* bar is the strategy's answer to the history ending at that bar; in
\* run_vectorized the position over the step from bar k to bar k+1 is the
\* signal of bar k; and the result through a bar does not depend on the bars
\* after it: a run handed the whole series (a later run, from a RiskManager
\* state that gates like a new one) has after each bar the trades and equity
\* records the first run had when it had read no further, and the vectorized
\* curve of a prefix is the prefix of the vectorized curve (evaluated on each
\* series as its newest row is read).
C24_NoLookAhead ==
    /\ pc = "signal" =>
          /\ market_data(data, i + 1).bars = SubSeq(data, 1, i + 1)
          /\ market_data(data, i + 1).current_price = data[i + 1].close
    /\ \A k \in 1..Len(strategy_log) :
          strategy_log[k].signal = data[strategy_log[k].timestamp].reply
    /\ (run_no >= 2 /\ pc = "mark" /\ risk_manager.max_open_positions > 1) =>
          /\ portfolio.equity_history = SubSeq(results[1].equity_curve, 1, i)
          /\ portfolio.trades = TradesThrough(results[1].trades, i)
    /\ (run_no = 1 /\ pc = "gate") =>
          \A v \in {AsSignalSeries(data)} :
             /\ \A k \in 1..(Len(v) - 1) :
                   vec_positions(v)[k] = IF v[k].flag = 1 THEN 1 ELSE 0
             /\ \A k \in 1..Len(v) :
                   VecCurve(SubSeq(v, 1, k)) = SubSeq(VecCurve(v), 1, k)

\* a second run, handed all three bars at once, has after its first bar what
\* the first run had there, on a series whose later bars differ from the
\* first in price and in the strategy's answer and on which both runs traded
C24_Witness ==
    /\ run_no = 2
    /\ pc = "mark"
    /\ i = 1
    /\ Len(data) = 3
    /\ risk_manager.max_open_positions > 1
    /\ Len(portfolio.trades) = 1
    /\ Len(results[1].trades) >= 2
    /\ data[2].close # data[1].close
    /\ data[3].reply # data[1].reply
    /\ portfolio.equity_history = SubSeq(results[1].equity_curve, 1, 1)

-----------------------------------------------------------------------------
(* Properties of Backtest.run on long series (specification SpecLongRun) *)

\* the statistics of the tally: win_rate = wins / (wins + losses), the mean
\* win (0 without wins) and the mean loss (1 without losses)
TallyStats ==
    [win_rate |-> (Len(wins) * Scale) \div (Len(wins) + Len(losses)),
     avg_win  |-> IF wins = <<>> THEN 0 ELSE SumSeq(wins) \div Len(wins),
     avg_loss |-> IF losses = <<>> THEN Scale
                  ELSE SumSeq(losses) \div Len(losses)]

\* RiskManager.calculate_position_size(win_rate, avg_win, avg_loss, cash) on
\* the statistics of the tally; 0 where the odds avg_win / avg_loss are 0
RiskSizeOfTally ==
    IF ZeroOdds(TallyStats.avg_win, TallyStats.avg_loss) THEN 0
    ELSE calculate_position_size(risk_manager, TallyStats.win_rate,
                                 TallyStats.avg_win, TallyStats.avg_loss,
                                 portfolio.cash, NoVolatility)

\* C21: while the tally holds fewer than 10 observations a signal that is not
\* HOLD is sized at 0.02 * cash / price, whatever its strength and confidence
\* and whatever the RiskManager; with 10 observations or more the size is
\* RiskManager.calculate_position_size(win_rate, avg_win, avg_loss, cash)
\* * strength * confidence / price on the statistics of the tally.
C21_BootstrapThenKellySizing ==
    [][(pc = "size" /\ signal.signal_type # "HOLD") =>
          IF Len(wins) + Len(losses) < 10
          THEN position_size' = Div(Mul(portfolio.cash, 20), Row.close)
          ELSE position_size'
                   = Div(Mul(Mul(RiskSizeOfTally, signal.strength),
                             signal.confidence), Row.close)]_vars

\* with ten wins tallied a SHORT of confidence 0.5 has been sized through the
\* RiskManager at half of what the RiskManager returned, and sold
C21_Witness ==
    /\ pc = "record"
    /\ Len(wins) + Len(losses) >= 10
    /\ signal.signal_type = "SHORT"
    /\ signal.confidence = 500
    /\ position_size > 0
    /\ Last(portfolio.trades).timestamp = Row.timestamp
    /\ Last(portfolio.trades).quantity = position_size
    /\ portfolio.trades[2].quantity
           = Div(Mul(ledger_log[2].cash, 20), portfolio.trades[2].price)

\* max(0, 1 - d / max_drawdown_pct) for the drawdown d of the portfolio's
\* total equity (cash plus marked positions) from peak_equity
DerateOnEquity ==
    Max(0, Scale - Div(current_drawdown(risk_manager, total_equity(portfolio)),
                       risk_manager.max_drawdown_pct))

\* the result of the wrapped sizer on the statistics of the tally
SizerOnTally ==
    kelly_position_size(risk_manager.position_sizer, TallyStats.win_rate,
                        TallyStats.avg_win, TallyStats.avg_loss, portfolio.cash)

\* C23: when run sizes a trade through the RiskManager, the sizer's output is
\* derated by max(0, 1 - d / max_drawdown_pct) with d the drawdown of the
\* total equity from peak_equity; with the equity at its peak the multiplier
\* is 1, however much of the equity is held in positions.
C23_DeratedByEquityDrawdown ==
    [][(pc = "size" /\ signal.signal_type # "HOLD"
           /\ Len(wins) + Len(losses) >= MinHistory
           /\ ~ZeroOdds(TallyStats.avg_win, TallyStats.avg_loss)) =>
          /\ position_size'
                = Div(Mul(Mul(Mul(SizerOnTally, DerateOnEquity), signal.strength),
                          signal.confidence), Row.close)
          /\ total_equity(portfolio) >= risk_manager.peak_equity =>
                position_size'
                    = Div(Mul(Mul(SizerOnTally, signal.strength),
                              signal.confidence), Row.close)]_vars

\* C28: with a positive initial capital, positive prices, strength and
\* confidence in [0, 1] and max_position_pct * 1.001 <= 1, the cash is never
\* negative: every BUY is sized so that its value plus its fee is no more than
\* the cash there is when it is executed.
C28_CashNeverNegative ==
    /\ [](portfolio.cash >= 0)
    /\ [][(Len(portfolio'.trades) > Len(portfolio.trades)
              /\ Last(portfolio'.trades).side = "BUY") =>
             TradeValue(Last(portfolio'.trades)) + Last(portfolio'.trades).fees
                 <= portfolio.cash]_vars

\* a BUY sized through the RiskManager at the cap of 10% of the cash, with
\* nothing held to derate it, has been executed
C28_Witness ==
    /\ pc = "record"
    /\ Len(wins) + Len(losses) >= MinHistory
    /\ Last(portfolio.trades).side = "BUY"
    /\ Last(portfolio.trades).timestamp = Row.timestamp
    /\ Last(ledger_log).held = {}
    /\ TradeValue(Last(portfolio.trades)) * 10 > Last(ledger_log).cash - 20 * Scale
    /\ portfolio.cash >= 0

\* C30: the fee of every fill executed by run is the Backtest's
\* commission_rate * quantity * fill price; with commission_rate = 0 no fee
\* is paid.
C30_FeeIsConfiguredCommission ==
    \A k \in 1..Len(portfolio.trades) :
        /\ portfolio.trades[k].fees
              = Mul(Mul(portfolio.trades[k].quantity, portfolio.trades[k].price),
                    backtest.commission_rate)
        /\ backtest.commission_rate = 0 => portfolio.trades[k].fees = 0

-----------------------------------------------------------------------------
(* Properties of RiskManager and KellyCriterion (specification SpecRisk) *)

\* (peak_equity - current_equity) / peak_equity >= max_drawdown_pct, with the
\* drawdown taken as 0 when there is no peak; stated without a division
DrawdownReached(rm, current_equity) ==
    /\ rm.peak_equity > 0
    /\ (rm.peak_equity - current_equity) * Scale
           >= rm.max_drawdown_pct * rm.peak_equity

\* -daily_pnl / peak_equity >= daily_loss_limit_pct; stated without a division
DailyLossReached(rm) ==
    /\ rm.peak_equity > 0
    /\ (-rm.daily_pnl) * Scale >= rm.daily_loss_limit_pct * rm.peak_equity

\* C5: can_trade(current_equity) is false exactly when the drawdown from
\* peak_equity has reached max_drawdown_pct, or the day's loss as a fraction
\* of peak_equity has reached daily_loss_limit_pct, or open_positions has
\* reached max_open_positions; with peak_equity = 10000,
\* max_drawdown_pct = 0.15 and no other gate tripped, can_trade(8500) is
\* false and can_trade(8600) is true.
C5_CanTradeGates ==
    call.op = "can_trade" =>
        /\ call.result = FALSE <=>
               \/ DrawdownReached(risk_manager, call.current_equity)
               \/ DailyLossReached(risk_manager)
               \/ risk_manager.open_positions >= risk_manager.max_open_positions
        /\ ( /\ risk_manager.peak_equity = 10000 * Scale
             /\ risk_manager.max_drawdown_pct = 150
             /\ ~DailyLossReached(risk_manager)
             /\ risk_manager.open_positions < risk_manager.max_open_positions )
           => /\ call.current_equity = 8500 * Scale => call.result = FALSE
              /\ call.current_equity = 8600 * Scale => call.result = TRUE

\* can_trade(8500) has answered false on the drawdown boundary alone
C5_Witness ==
    /\ call.op = "can_trade"
    /\ call.current_equity = 8500 * Scale
    /\ risk_manager.peak_equity = 10000 * Scale
    /\ ~DailyLossReached(risk_manager)
    /\ risk_manager.open_positions < risk_manager.max_open_positions
    /\ call.result = FALSE

\* the sign of the edge b*p - q, with b = avg_win / avg_loss, stated without
\* a division: avg_win * p - avg_loss * q
Edge(win_rate, avg_win, avg_loss) ==
    avg_win * win_rate - avg_loss * (Scale - win_rate)

\* the full Kelly fraction is <= 0: no loss statistics, or no positive edge
NoEdge(win_rate, avg_win, avg_loss) ==
    avg_loss <= 0 \/ (avg_win > 0 /\ Edge(win_rate, avg_win, avg_loss) <= 0)

\* C6: KellyCriterion.calculate_position_size returns exactly 0 whenever the
\* full Kelly fraction is <= 0 (avg_loss <= 0 included), for every capital
\* and multiplier: the floor min_position_pct never lifts it.
C6_NoEdgeNoPosition ==
    (call.op = "kelly_size" /\ ~call.raised
        /\ NoEdge(call.win_rate, call.avg_win, call.avg_loss))
    => call.result = 0

\* the sizer was asked with a negative edge and capital to spend
C6_Witness ==
    /\ call.op = "kelly_size"
    /\ call.avg_loss > 0
    /\ call.avg_win > 0
    /\ Edge(call.win_rate, call.avg_win, call.avg_loss) < 0
    /\ call.capital > 0
    /\ risk_manager.position_sizer.min_position_pct > 0
    /\ call.result = 0

\* clamp(x, lo, hi)
Clamp(x, lo, hi) == IF x < lo THEN lo ELSE IF x > hi THEN hi ELSE x

C8_SizeNonIncreasingInVolatility ==
    (call.op = "position_size" /\ ~call.raised /\ call.capital >= 0) =>
        \A SizeAt \in {[v \in Volatilities \cup {NoVolatility} |->
                           calculate_position_size(risk_manager, call.win_rate,
                                                   call.avg_win, call.avg_loss,
                                                   call.capital, v)]} :
           /\ call.result = SizeAt[call.volatility]
           /\ \A v1 \in Volatilities, v2 \in Volatilities :
                  v1[1] <= v2[1] => SizeAt[v2] <= SizeAt[v1]
           /\ \A v \in Volatilities : SizeAt[v] <= SizeAt[NoVolatility]

\* a volatility above the target was supplied and shrank a non-zero size
C8_Witness ==
    /\ call.op = "position_size"
    /\ ~call.raised
    /\ call.volatility = <<50>>
    /\ call.result > 0
    /\ call.result
          < calculate_position_size(risk_manager, call.win_rate, call.avg_win,
                                    call.avg_loss, call.capital, NoVolatility)

-----------------------------------------------------------------------------
(* Properties of the Portfolio (specification SpecPortfolio) *)

\* the cash and the held symbols right after the k-th trade
CashAfter(k) ==
    IF k = Len(portfolio.trades) THEN portfolio.cash ELSE ledger_log[k + 1].cash

HeldAfter(k) ==
    IF k = Len(portfolio.trades) THEN DOMAIN portfolio.positions
    ELSE ledger_log[k + 1].held

\* trades k and k+1 are a round trip: a BUY of a symbol not held before it,
\* then a SELL of the same quantity of that symbol
RoundTrip(k) ==
    /\ k + 1 <= Len(portfolio.trades)
    /\ portfolio.trades[k].side = "BUY"
    /\ portfolio.trades[k + 1].side = "SELL"
    /\ portfolio.trades[k + 1].symbol = portfolio.trades[k].symbol
    /\ portfolio.trades[k + 1].quantity = portfolio.trades[k].quantity
    /\ portfolio.trades[k].symbol \notin ledger_log[k].held

\* C9: after a BUY of q of a symbol not held followed by a SELL of q of it,
\* the symbol is not in the position map, and when both fills were at the
\* same price the cash is the cash before the BUY less the two fees.
C9_RoundTrip ==
    \A k \in 1..Len(portfolio.trades) :
        RoundTrip(k) =>
            /\ portfolio.trades[k].symbol \notin HeldAfter(k + 1)
            /\ portfolio.trades[k + 1].price = portfolio.trades[k].price
                   => CashAfter(k + 1)
                          = ledger_log[k].cash - portfolio.trades[k].fees
                                - portfolio.trades[k + 1].fees

\* a round trip at one price, with a fee paid on each leg, has happened
C9_Witness ==
    /\ pc = "api"
    /\ Len(portfolio.trades) = 2
    /\ RoundTrip(1)
    /\ portfolio.trades[2].price = portfolio.trades[1].price
    /\ portfolio.trades[1].fees > 0
    /\ portfolio.cash = backtest.initial_capital - 2 * portfolio.trades[1].fees
    /\ portfolio.positions = [s \in {} |-> 0]

\* C10: every entry of the position map has a quantity > 0.
C10_PositionsPositive ==
    \A s \in DOMAIN portfolio.positions : portfolio.positions[s].quantity > 0

\* a SELL of more than was held has just removed the entry, another is held
C10_Witness ==
    /\ pc = "api"
    /\ Len(portfolio.trades) >= 2
    /\ Last(portfolio.trades).side = "SELL"
    /\ Last(portfolio.trades).symbol \in Last(ledger_log).held
    /\ Last(portfolio.trades).symbol \notin DOMAIN portfolio.positions
    /\ DOMAIN portfolio.positions # {}

\* the amount the trade moves the cash by: -(value + fees) for a BUY,
\* +(value - fees) for a SELL, the fees being fee_rate of the value
CashEffect(trade) ==
    IF trade.side = "BUY"
    THEN -(TradeValue(trade) + Mul(TradeValue(trade), fee_rate))
    ELSE TradeValue(trade) - Mul(TradeValue(trade), fee_rate)

\* C11: every execute_order appends one Trade and moves the cash by
\* -(value + fees) on a BUY and +(value - fees) on a SELL, fees being a fixed
\* rate of the value; no other operation changes the cash; so the cash is
\* always the initial cash plus total_realized_pnl of the trade log.
C11_CashLedger ==
    /\ [](portfolio.cash - portfolio.initial_capital
              = total_realized_pnl(portfolio))
    /\ [][IF Len(portfolio'.trades) = Len(portfolio.trades)
          THEN portfolio'.cash = portfolio.cash
          ELSE /\ Len(portfolio'.trades) = Len(portfolio.trades) + 1
               /\ SubSeq(portfolio'.trades, 1, Len(portfolio.trades))
                      = portfolio.trades
               /\ portfolio'.cash - portfolio.cash
                      = CashEffect(Last(portfolio'.trades))]_vars

\* a BUY and a SELL have been executed and the equity recorded in between,
\* each with a fee, and the cash has moved
C11_Witness ==
    /\ pc = "api"
    /\ Len(portfolio.trades) = 2
    /\ portfolio.trades[1].side = "BUY"
    /\ portfolio.trades[2].side = "SELL"
    /\ portfolio.trades[1].fees > 0
    /\ portfolio.trades[2].fees > 0
    /\ portfolio.equity_history # <<>>
    /\ portfolio.cash = backtest.initial_capital
                            - TradeValue(portfolio.trades[1])
                            - portfolio.trades[1].fees
                            + TradeValue(portfolio.trades[2])
                            - portfolio.trades[2].fees

\* the fill is at the mark price of its symbol: the symbol is not held, or is
\* held and marked at the fill price
FilledAtMark(pf, trade) ==
    trade.symbol \in DOMAIN pf.positions
        => pf.positions[trade.symbol].current_price = trade.price

\* C29: every execute_order filled at the symbol's mark price changes
\* total_equity by exactly minus the fee of the trade, for BUY and SELL and
\* whatever is held (a SELL of a symbol not held, or of more than is held,
\* included).
C29_FillCostsOnlyTheFee ==
    [][Len(portfolio'.trades) > Len(portfolio.trades) =>
          (FilledAtMark(portfolio, Last(portfolio'.trades)) =>
              total_equity(portfolio')
                  = total_equity(portfolio) - Last(portfolio'.trades).fees)]_vars

\* C13: no KellyCriterion with min_position_pct > max_position_pct exists to
\* compute a position size (its construction fails).
C13_NoInvertedSizer ==
    call.op \in {"kelly_size", "position_size"} =>
        risk_manager.position_sizer.min_position_pct
            <= risk_manager.position_sizer.max_position_pct

\* C25: statistics with losses and no wins (avg_win = 0, avg_loss > 0) are
\* not an error: calculate_kelly_fraction and the two calculate_position_size
\* return without raising, and the position size is 0.
C25_NoWinsIsNotAnError ==
    (call.op \in {"kelly_fraction", "kelly_size", "position_size"}
        /\ call.avg_win = 0 /\ call.avg_loss > 0)
    => /\ ~call.raised
       /\ call.op \in {"kelly_size", "position_size"} => call.result = 0

\* C27: for all statistics, capital, volatility and RiskManager state (any
\* peak_equity >= 0, below the capital or not), RiskManager's
\* calculate_position_size returns a value between 0 and the result of the
\* wrapped sizer for the same inputs, and so never more than
\* max_position_pct * capital.
C27_SizeWithinSizerResult ==
    (call.op = "position_size" /\ ~call.raised /\ call.capital >= 0
        /\ risk_manager.peak_equity >= 0) =>
        \A base \in {kelly_position_size(risk_manager.position_sizer,
                                         call.win_rate, call.avg_win,
                                         call.avg_loss, call.capital)} :
            /\ 0 <= call.result
            /\ call.result <= base
            /\ call.result
                  <= Mul(call.capital,
                         risk_manager.position_sizer.max_position_pct)

-----------------------------------------------------------------------------
(* Properties of Backtest.run_vectorized (specification SpecVectorized) *)

\* the eight keys under which Backtest.run reports its metrics
MetricKeys == DOMAIN get_metrics(NoPortfolio)

\* C15: run_vectorized returns an empty trade list and, under the eight keys
\* of run's metrics, num_trades = 0, win_rate = 0, profit_factor = 0 and
\* avg_trade_pnl = 0, whatever the data and the signals.
C15_VectorizedTradeMetricsZero ==
    \A k \in 1..Len(results) :
        /\ results[k].trades = <<>>
        /\ DOMAIN results[k].metrics = MetricKeys
        /\ results[k].metrics.num_trades = 0
        /\ results[k].metrics.win_rate = 0
        /\ results[k].metrics.profit_factor = Finite(0)
        /\ results[k].metrics.avg_trade_pnl = 0

-----------------------------------------------------------------------------
(* Properties of Backtest.run on any series (specification SpecAnyData) *)

\* the timestamps of the rows are strictly increasing
StrictlyIncreasing(d) ==
    \A k \in 1..(Len(d) - 1) : d[k].timestamp < d[k + 1].timestamp

\* C12: a series whose timestamps are not strictly increasing is rejected
\* before any bar is simulated: no signal is requested, no order executed, no
\* equity recorded and no result returned for it.
C12_UnorderedRejected ==
    ~StrictlyIncreasing(data) =>
        /\ strategy_log = <<>>
        /\ portfolio.trades = <<>>
        /\ portfolio.equity_history = <<>>
        /\ results = <<>>

====
